---- MODULE Spec2Model ----
(***************************************************************************)
(* Cloudnote renderer (App.tsx, the version with the tab bar): the forest  *)
(* of notes addressed by index paths, the search panel and the tab bar.    *)
(*                                                                         *)
(* One user event is handled to completion, React re-renders, and the      *)
(* effects whose dependencies changed run, before the next event: an       *)
(* action is one handler together with the effects it triggers.  Inside a  *)
(* handler the state read is the state of the last render (the unprimed    *)
(* variables).                                                             *)
(*                                                                         *)
(* A string is a sequence of one-character strings, so that toLowerCase,   *)
(* trim and includes are computed.  A path is a sequence of 0-based        *)
(* indexes; TLA+ sequences are 1-based, so index idx is element idx + 1.   *)
(***************************************************************************)
EXTENDS Integers, Sequences, FiniteSets, TLC

VARIABLES notes, selectedPath, openTabs, activeTabIndex,
          searchOpen, searchQuery, searchResults, searchSelectedIndex,
          storage, last, created, edits, cap

vars == <<notes, selectedPath, openTabs, activeTabIndex,
          searchOpen, searchQuery, searchResults, searchSelectedIndex,
          storage, last, created, edits, cap>>

tabVars == <<selectedPath, openTabs, activeTabIndex>>
searchVars == <<searchOpen, searchQuery, searchResults, searchSelectedIndex>>

----------------------------------------------------------------------------
(* Bounds of the model *)

\* A session is explored up to a cap on the number of notes of the forest, on
\* the number of tabs of the tab bar and on the number of edits (title,
\* content, collapse); the handlers are also handed the paths over
\* 0..MaxIndex up to a length, beside the paths of the notes shown.  Each
\* specification sets its own caps.

\* Spec: every handler
MaxNotes == 3
MaxTabs == 2
MaxEdits == 1
MaxPathLen == 1
\* SpecCreate: handleNewNote and handleAddSubNote
CreateMaxNotes == 5
CreateMaxTabs == 3
CreateMaxPathLen == 5
\* SpecTree: the handlers of the notes and of the tabs
TreeMaxNotes == 4
TreeMaxTabs == 1
TreeMaxEdits == 1
TreeMaxPathLen == 2
\* SpecDepth: the handlers of the notes, a click on a note and the x of a tab
DepthMaxNotes == 5
DepthMaxTabs == 1
DepthMaxEdits == 1
DepthMaxPathLen == 4
\* SpecTabs: the handlers that create notes and the handlers of the tabs
TabsMaxNotes == 3
TabsMaxTabs == 3
\* SpecCommit: SpecTabs with the search panel, up to the choice of a result
CommitMaxNotes == 3
CommitMaxTabs == 2
\* SpecSearch: the search panel over a forest loaded from the storage
SearchMaxNotes == 3
\* SpecGrow: handleNewNote and handleAddSubNote over a loaded forest
GrowMaxNotes == 4
GrowMaxTabs == 1
GrowMaxPathLen == 1
\* SpecEdit: a click on a note and the handlers that edit, over a loaded forest
EditMaxNotes == 3
EditMaxTabs == 1
EditMaxEdits == 2
EditMaxPathLen == 2
\* SpecToggle: the collapse arrows over a loaded forest
ToggleMaxNotes == 3
ToggleMaxEdits == 2
ToggleMaxPathLen == 1
\* SpecStore: the start of a session over a storage, then the handlers of the
\* notes and a click on a note
StoreMaxNotes == 2
StoreMaxTabs == 1
StoreMaxEdits == 1
StoreMaxPathLen == 1
\* largest index of the paths handed to the handlers beside those shown
MaxIndex == 1
\* the paths getNoteByPath is compared on: indexes from -1 to ResolveMaxIndex,
\* lengths up to ResolveMaxLen
ResolveMaxIndex == 2
ResolveMaxLen == 3

Caps(n, t, e, l) == [notes |-> n, tabs |-> t, edits |-> e, pathLen |-> l]

(* Program constants *)

\* the depth test off by one: "if (path.length > 4)"
MaxDepth_offByOne == 4 + 1

\* handleAddSubNote: "if (path.length >= 4)"
MaxDepth == 4

----------------------------------------------------------------------------
(* Strings *)

UntitledNote == <<"U", "n", "t", "i", "t", "l", "e", "d", " ", "N", "o", "t", "e">>
UntitledSubNote ==
    <<"U", "n", "t", "i", "t", "l", "e", "d", " ", "S", "u", "b", "N", "o", "t", "e">>
EmptyString == <<>>

\* what the user types into the title input, the content textarea and the
\* search input
TitleInputs == {<<"S", "u", "b">>}
ContentInputs == {<<"m", "U">>}
QueryInputs == {<<>>, <<" ">>, <<"s", "U", "b">>, <<" ", "n">>, <<"M", "u">>}

\* String.prototype.toLowerCase, on the characters that occur
LowerChar(c) ==
    CASE c = "U" -> "u"
      [] c = "N" -> "n"
      [] c = "S" -> "s"
      [] c = "M" -> "m"
      [] OTHER -> c

toLowerCase(s) == [i \in 1..Len(s) |-> LowerChar(s[i])]

\* String.prototype.trim: white space is dropped at both ends
RECURSIVE trimStart(_)
trimStart(s) ==
    IF s # <<>> /\ Head(s) = " " THEN trimStart(Tail(s)) ELSE s

RECURSIVE trimEnd(_)
trimEnd(s) ==
    IF s # <<>> /\ s[Len(s)] = " " THEN trimEnd(SubSeq(s, 1, Len(s) - 1)) ELSE s

trim(s) == trimEnd(trimStart(s))

\* String.prototype.includes: the first position from which q is read, scanned
\* from the left
RECURSIVE includesFrom(_, _, _)
includesFrom(s, q, k) ==
    IF k + Len(q) - 1 > Len(s) THEN FALSE
    ELSE IF SubSeq(s, k, k + Len(q) - 1) = q THEN TRUE
    ELSE includesFrom(s, q, k + 1)

includes(s, q) == includesFrom(s, q, 1)

----------------------------------------------------------------------------
(* Notes and paths *)

\* getNoteByPath's null
Null == [null |-> TRUE]

newNote == [title |-> UntitledNote, content |-> EmptyString,
            subNotes |-> <<>>, isCollapsed |-> FALSE]

newSubNote == [title |-> UntitledSubNote, content |-> EmptyString,
               subNotes |-> <<>>, isCollapsed |-> FALSE]

\* pathsEqual without its loop: the lengths alone are compared
pathsEqual_lengthOnly(a, b) == Len(a) = Len(b)

pathsEqual(a, b) ==
    /\ Len(a) = Len(b)
    /\ \A i \in 1..Len(a) : a[i] = b[i]

\* the loop of getNoteByPath with an index past the end taken for the last
\* one, in place of "if (idx < 0 || idx >= level.length) return null"
RECURSIVE getNoteLoop_clamp(_, _, _)
getNoteLoop_clamp(level, path, i) ==
    IF Len(level) = 0 THEN Null
    ELSE LET idx == IF path[i] >= Len(level) THEN Len(level) - 1 ELSE path[i]
             current == level[idx + 1] IN
         IF i = Len(path) THEN current
         ELSE getNoteLoop_clamp(current.subNotes, path, i + 1)

\* the loop of getNoteByPath with "idx <= 0" in place of "idx < 0"
RECURSIVE getNoteLoop_strict(_, _, _)
getNoteLoop_strict(level, path, i) ==
    LET idx == path[i] IN
    IF idx <= 0 \/ idx >= Len(level) THEN Null
    ELSE LET current == level[idx + 1] IN
         IF i = Len(path) THEN current
         ELSE getNoteLoop_strict(current.subNotes, path, i + 1)

\* the loop of getNoteByPath from position i on, with the level reached
RECURSIVE getNoteLoop(_, _, _)
getNoteLoop(level, path, i) ==
    LET idx == path[i] IN
    IF idx < 0 \/ idx >= Len(level) THEN Null
    ELSE LET current == level[idx + 1] IN
         IF i = Len(path) THEN current
         ELSE getNoteLoop(current.subNotes, path, i + 1)

getNoteByPath(ns, path) ==
    IF Len(path) = 0 THEN Null ELSE getNoteLoop(ns, path, 1)

\* setNoteByPath without its descent: the note at the first index is replaced
setNoteLoop_shallow(level, path, i, updated) ==
    [level EXCEPT ![path[i] + 1] = updated]

\* the loop of setNoteByPath from position i on: the level with the note at
\* the end of the path replaced.  Every caller has resolved the path first.
RECURSIVE setNoteLoop(_, _, _, _)
setNoteLoop(level, path, i, updated) ==
    LET idx == path[i] IN
    IF i = Len(path) THEN [level EXCEPT ![idx + 1] = updated]
    ELSE [level EXCEPT ![idx + 1].subNotes =
              setNoteLoop(level[idx + 1].subNotes, path, i + 1, updated)]

\* setNoteByPath without its setNotes(newNotes): the clone is dropped
setNoteByPath_dropped(ns, path, updated) == ns

\* the forest handed to setNotes
setNoteByPath(ns, path, updated) ==
    IF Len(path) = 0 THEN ns ELSE setNoteLoop(ns, path, 1, updated)

\* dfs that stays out of a collapsed note, as renderNoteItem does
RECURSIVE dfs_skipCollapsed(_, _, _)
dfs_skipCollapsed(notesArr, currentPath, k) ==
    IF k > Len(notesArr) THEN <<>>
    ELSE LET n == notesArr[k]
             newPath == Append(currentPath, k - 1)
         IN  <<[path |-> newPath, note |-> n]>>
             \o (IF Len(n.subNotes) > 0 /\ ~n.isCollapsed
                 THEN dfs_skipCollapsed(n.subNotes, newPath, 1) ELSE <<>>)
             \o dfs_skipCollapsed(notesArr, currentPath, k + 1)

\* dfs with results.push after the recursive call: a note after its sub notes
RECURSIVE dfs_pushAfter(_, _, _)
dfs_pushAfter(notesArr, currentPath, k) ==
    IF k > Len(notesArr) THEN <<>>
    ELSE LET n == notesArr[k]
             newPath == Append(currentPath, k - 1)
         IN  (IF Len(n.subNotes) > 0 THEN dfs_pushAfter(n.subNotes, newPath, 1) ELSE <<>>)
             \o <<[path |-> newPath, note |-> n]>>
             \o dfs_pushAfter(notesArr, currentPath, k + 1)

\* dfs of gatherAllNotes: notesArr.forEach from position k on
RECURSIVE dfs(_, _, _)
dfs(notesArr, currentPath, k) ==
    IF k > Len(notesArr) THEN <<>>
    ELSE LET n == notesArr[k]
             newPath == Append(currentPath, k - 1)
         IN  <<[path |-> newPath, note |-> n]>>
             \o (IF Len(n.subNotes) > 0 THEN dfs(n.subNotes, newPath, 1) ELSE <<>>)
             \o dfs(notesArr, currentPath, k + 1)

gatherAllNotes(rootNotes) == dfs(rootNotes, <<>>, 1)

\* the filter without its second disjunct: the title alone is searched
noteMatches_titleOnly(note, lowerQ) == includes(toLowerCase(note.title), lowerQ)

\* the filter of the search effect
noteMatches(note, lowerQ) ==
    \/ includes(toLowerCase(note.title), lowerQ)
    \/ includes(toLowerCase(note.content), lowerQ)

\* the result list the search effect computes for an open panel
search(ns, query) ==
    IF trim(query) = <<>> THEN <<>>
    ELSE LET all == gatherAllNotes(ns)
             lowerQ == toLowerCase(query)
         IN  SelectSeq(all, LAMBDA r : noteMatches(r.note, lowerQ))

----------------------------------------------------------------------------
(* localStorage and JSON *)

\* A JSON text is a sequence of tokens: the brackets, the braces, and one
\* token for each key with its value (the key "subNotes" is followed by the
\* tokens of its array).  A value is written as characters.
Tok(t, v) == [t |-> t, v |-> v]

\* JSON.stringify(notes): the array of the notes, each with its keys in the
\* order the handlers write them
RECURSIVE stringify(_)
stringify(level) ==
    <<Tok("[", <<>>)>>
    \o (IF level = <<>> THEN <<>>
        ELSE LET n == Head(level)
                 rest == stringify(Tail(level)) IN
             <<Tok("{", <<>>), Tok("title", n.title), Tok("content", n.content),
               Tok("subNotes", <<>>)>>
             \o stringify(n.subNotes)
             \o <<Tok("isCollapsed", IF n.isCollapsed THEN <<"true">> ELSE <<"false">>),
                  Tok("}", <<>>)>>
             \o SubSeq(rest, 2, Len(rest) - 1))
    \o <<Tok("]", <<>>)>>

\* the outcome of reading a value from position i of a text: the value and
\* the position after it, or a SyntaxError
Parsed(val, next) == [ok |-> TRUE, val |-> val, next |-> next]
SyntaxError == [ok |-> FALSE, val |-> <<>>, next |-> 0]

RECURSIVE parseArray(_, _)
RECURSIVE parseItems(_, _, _)
RECURSIVE parseNote(_, _)

\* an array: "[", its items, "]"
parseArray(text, i) ==
    IF i > Len(text) \/ text[i].t # "[" THEN SyntaxError
    ELSE parseItems(text, i + 1, <<>>)

parseItems(text, i, acc) ==
    IF i > Len(text) THEN SyntaxError
    ELSE IF text[i].t = "]" THEN Parsed(acc, i + 1)
    ELSE LET r == parseNote(text, i) IN
         IF ~r.ok THEN SyntaxError
         ELSE parseItems(text, r.next, Append(acc, r.val))

\* a note: "{", title, content, subNotes with its array, isCollapsed, "}"
parseNote(text, i) ==
    IF i + 3 > Len(text) THEN SyntaxError
    ELSE IF \/ text[i].t # "{"
            \/ text[i + 1].t # "title"
            \/ text[i + 2].t # "content"
            \/ text[i + 3].t # "subNotes" THEN SyntaxError
    ELSE LET sub == parseArray(text, i + 4) IN
         IF ~sub.ok THEN SyntaxError
         ELSE IF sub.next + 1 > Len(text) THEN SyntaxError
         ELSE IF \/ text[sub.next].t # "isCollapsed"
                 \/ text[sub.next + 1].t # "}" THEN SyntaxError
         ELSE Parsed([title |-> text[i + 1].v, content |-> text[i + 2].v,
                      subNotes |-> sub.val,
                      isCollapsed |-> text[sub.next].v = <<"true">>],
                     sub.next + 2)

\* JSON.parse(text): the whole text is one array, or a SyntaxError is thrown
JSONparse(text) ==
    LET r == parseArray(text, 1) IN
    IF r.ok /\ r.next = Len(text) + 1 THEN r ELSE SyntaxError

\* an item of localStorage: getItem gives null for a key that is absent
Item(text) == [present |-> TRUE, text |-> text]
Absent == [present |-> FALSE, text |-> <<>>]

\* a text that JSON.parse throws on: an array that is not closed
BrokenText == <<Tok("[", <<>>), Tok("{", <<>>)>>

\* useEffect(() => localStorage.setItem('myapp_notes', ...), [notes]) never
\* run: the storage keeps what it had
saveNotes_skipped(ns) == storage

\* useEffect(() => localStorage.setItem('myapp_notes', JSON.stringify(notes)),
\* [notes]): the storage after the effect has run for the forest ns
saveNotes(ns) == [storage EXCEPT !.notes = Item(stringify(ns))]

----------------------------------------------------------------------------
(* Inputs *)

RECURSIVE countNotes(_)
countNotes(level) ==
    IF level = <<>> THEN 0
    ELSE 1 + countNotes(Head(level).subNotes) + countNotes(Tail(level))

\* the paths of the notes the notes panel can show
notePaths(ns) ==
    LET all == gatherAllNotes(ns) IN {all[i].path : i \in 1..Len(all)}

\* the paths of length 0..cap.pathLen that repeat one index of 0..MaxIndex
BoundedPaths == {[i \in 1..n |-> j] : n \in 0..cap.pathLen, j \in 0..MaxIndex}

\* the paths handed to a handler that takes a path
PathInputs(ns) == notePaths(ns) \cup BoundedPaths

----------------------------------------------------------------------------
(* Effects *)

\* the search effect without its setSearchSelectedIndex(0)
SearchEffect_keep(changed, open, query, ns, r, s) ==
    IF changed /\ open
    THEN /\ searchResults' = search(ns, query)
         /\ searchSelectedIndex' = s
    ELSE /\ searchResults' = r
         /\ searchSelectedIndex' = s

\* useEffect(..., [searchQuery, notes, searchOpen]): runs when a dependency
\* changed; r and s are the results and the cursor the handler left
SearchEffect(changed, open, query, ns, r, s) ==
    IF changed /\ open
    THEN /\ searchResults' = search(ns, query)
         /\ searchSelectedIndex' = 0
    ELSE /\ searchResults' = r
         /\ searchSelectedIndex' = s

\* a handler that sets the forest, with the search effect on [searchQuery,
\* searchOpen] alone: the results are left as they were
NotesChanged_stale(ns) ==
    /\ notes' = ns
    /\ storage' = saveNotes(ns)
    /\ UNCHANGED <<searchOpen, searchQuery, searchResults, searchSelectedIndex>>

\* a handler that sets the forest and leaves the search states alone
NotesChanged(ns) ==
    /\ notes' = ns
    /\ storage' = saveNotes(ns)
    /\ UNCHANGED <<searchOpen, searchQuery>>
    /\ SearchEffect(TRUE, searchOpen, searchQuery, ns, searchResults, searchSelectedIndex)

Op(name, path, index, res) == [op |-> name, path |-> path, index |-> index, res |-> res]

----------------------------------------------------------------------------
Start ==
    /\ notes = <<>>
    /\ storage = [notes |-> Item(stringify(<<>>)), tasks |-> Item(stringify(<<>>))]
    /\ selectedPath = <<>>
    /\ openTabs = <<>>
    /\ activeTabIndex = -1
    /\ searchOpen = FALSE
    /\ searchQuery = <<>>
    /\ searchResults = <<>>
    /\ searchSelectedIndex = 0
    /\ last = Op("init", <<>>, -1, "OK")
    /\ created = {}
    /\ edits = 0

Init ==
    /\ Start
    /\ cap = Caps(MaxNotes, MaxTabs, MaxEdits, MaxPathLen)

---------------------------------------------------------------------------------------------------------------------------------------------------
(* Tabs *)

\* openNoteTab without its search of the open tabs
findTabIndex_none(tabs, path) == -1

\* openTabs.findIndex((t) => pathsEqual(t, path)), 0-based, -1 when none
findTabIndex(tabs, path) ==
    IF \E i \in 1..Len(tabs) : pathsEqual(tabs[i], path)
    THEN (CHOOSE i \in 1..Len(tabs) :
             /\ pathsEqual(tabs[i], path)
             /\ \A j \in 1..(i - 1) : ~pathsEqual(tabs[j], path)) - 1
    ELSE -1

\* openNoteTab that adds the tab without setActiveTabIndex(openTabs.length)
openNoteTab_background(path) ==
    LET existingIndex == findTabIndex(openTabs, path) IN
    IF existingIndex >= 0
    THEN /\ activeTabIndex' = existingIndex
         /\ selectedPath' = path
         /\ openTabs' = openTabs
    ELSE /\ Len(openTabs) < cap.tabs
         /\ openTabs' = Append(openTabs, path)
         /\ activeTabIndex' = activeTabIndex
         /\ selectedPath' = path

\* the tab states openNoteTab leaves
openNoteTab(path) ==
    LET existingIndex == findTabIndex(openTabs, path) IN
    IF existingIndex >= 0
    THEN /\ activeTabIndex' = existingIndex
         /\ selectedPath' = path
         /\ openTabs' = openTabs
    ELSE /\ Len(openTabs) < cap.tabs
         /\ openTabs' = Append(openTabs, path)
         /\ activeTabIndex' = Len(openTabs)
         /\ selectedPath' = path

\* copy.splice(index) without its count: every tab from index on is removed
spliceOne_rest(tabs, index) ==
    LET start == IF index < 0
                 THEN (IF Len(tabs) + index < 0 THEN 0 ELSE Len(tabs) + index)
                 ELSE index IN
    SubSeq(tabs, 1, start)

\* prev => { copy = [...prev]; copy.splice(index, 1) }: Array.prototype.splice
\* counts a negative index from the end and removes nothing at or past the end
spliceOne(tabs, index) ==
    LET start == IF index < 0
                 THEN (IF Len(tabs) + index < 0 THEN 0 ELSE Len(tabs) + index)
                 ELSE index IN
    IF start >= Len(tabs) THEN tabs
    ELSE [i \in 1..(Len(tabs) - 1) |-> IF i <= start THEN tabs[i] ELSE tabs[i + 1]]

\* a click on a note of the notes panel
handleSelectPath(path) ==
    /\ openNoteTab(path)
    /\ last' = Op("handleSelectPath", path, -1, "OK")
    /\ UNCHANGED <<notes, storage, searchVars, created, edits, cap>>

handleGoHome ==
    /\ selectedPath' = <<>>
    /\ last' = Op("handleGoHome", <<>>, -1, "OK")
    /\ UNCHANGED <<notes, storage, openTabs, activeTabIndex, searchVars, created, edits, cap>>

\* openTabs[index] for an index that is none of the array's: undefined, which
\* is no path; written as a sequence no path equals, an index being 0 or more
Undefined == <<-1>>

\* a click on a tab of the tab bar
handleTabClick(index) ==
    /\ activeTabIndex' = index
    /\ selectedPath' = IF index \in 0..(Len(openTabs) - 1)
                       THEN openTabs[index + 1] ELSE Undefined
    /\ last' = Op("handleTabClick", <<>>, index, "OK")
    /\ UNCHANGED <<notes, storage, openTabs, searchVars, created, edits, cap>>

\* the tab after the closed one is picked: "let newIndex = index"
closedActive_next(index) ==
    IF Len(openTabs) - 1 <= 0
    THEN /\ activeTabIndex' = -1
         /\ selectedPath' = <<>>
    ELSE /\ activeTabIndex' = IF index >= Len(openTabs) - 1 THEN Len(openTabs) - 2 ELSE index
         /\ UNCHANGED selectedPath

\* handleTabClose, "if (index === activeTabIndex)": the active tab and the
\* selection left when the tab closed is the active one
closedActive(index) ==
    LET newIndex == IF index - 1 < 0 THEN 0 ELSE index - 1 IN
    IF newIndex >= Len(openTabs) - 1
    THEN IF Len(openTabs) - 1 <= 0
         THEN /\ activeTabIndex' = -1
              /\ selectedPath' = <<>>
         ELSE /\ activeTabIndex' = Len(openTabs) - 2
              /\ selectedPath' = openTabs[Len(openTabs) - 1]
    ELSE /\ activeTabIndex' = newIndex
         /\ UNCHANGED selectedPath

\* handleTabClose without its "else if (index < activeTabIndex)" branch
closedOther_kept(index) == UNCHANGED <<activeTabIndex, selectedPath>>

\* handleTabClose, "else if (index < activeTabIndex)": the active tab left when
\* the tab closed is another one
closedOther(index) ==
    /\ activeTabIndex' = IF index < activeTabIndex
                         THEN activeTabIndex - 1
                         ELSE activeTabIndex
    /\ UNCHANGED selectedPath

\* a click on the x of a tab of the tab bar
handleTabClose(index) ==
    /\ openTabs' = spliceOne(openTabs, index)
    /\ IF index = activeTabIndex
       THEN /\ closedActive(index)
            /\ last' = Op("handleTabClose", <<>>, index, "ClosedActive")
       ELSE /\ closedOther(index)
            /\ last' = Op("handleTabClose", <<>>, index, "ClosedOther")
    /\ UNCHANGED <<notes, storage, searchVars, created, edits, cap>>

----------------------------------------------------------------------------
(* Notes *)

\* handleNewNote with the index of the tab taken one past that of the new note
handleNewNote_past ==
    /\ countNotes(notes) < cap.notes
    /\ NotesChanged(Append(notes, newNote))
    /\ openNoteTab(<<Len(notes) + 1>>)
    /\ last' = Op("handleNewNote", <<>>, -1, "OK")
    /\ created' = created \cup
           {[path |-> <<Len(notes)>>, title |-> newNote.title, content |-> newNote.content]}
    /\ UNCHANGED <<edits, cap>>

\* handleNewNote with the new note put first: [newNote, ...prev]
handleNewNote_first ==
    /\ countNotes(notes) < cap.notes
    /\ NotesChanged(<<newNote>> \o notes)
    /\ openNoteTab(<<Len(notes)>>)
    /\ last' = Op("handleNewNote", <<>>, -1, "OK")
    /\ created' = created \cup
           {[path |-> <<Len(notes)>>, title |-> newNote.title, content |-> newNote.content]}
    /\ UNCHANGED <<edits, cap>>

handleNewNote ==
    /\ countNotes(notes) < cap.notes
    /\ NotesChanged(Append(notes, newNote))
    /\ openNoteTab(<<Len(notes)>>)
    /\ last' = Op("handleNewNote", <<>>, -1, "OK")
    /\ created' = created \cup
           {[path |-> <<Len(notes)>>, title |-> newNote.title, content |-> newNote.content]}
    /\ UNCHANGED <<edits, cap>>

\* newSubNotes.unshift(newSubNote) in place of push
pushSubNote_unshift(subNotes, n) == <<n>> \o subNotes

\* newSubNotes = [...parent.subNotes]; newSubNotes.push(newSubNote)
pushSubNote(subNotes, n) == Append(subNotes, n)

\* handleAddSubNote followed by openNoteTab of the sub note, as handleNewNote
\* does for a root note
handleAddSubNote_opens(path) ==
    LET parent == getNoteByPath(notes, path) IN
    IF parent = Null
    THEN /\ last' = Op("handleAddSubNote", path, -1, "NotFound")
         /\ UNCHANGED <<notes, storage, tabVars, searchVars, created, edits, cap>>
    ELSE IF Len(path) >= MaxDepth
    THEN /\ last' = Op("handleAddSubNote", path, -1, "DepthExceeded")
         /\ UNCHANGED <<notes, storage, tabVars, searchVars, created, edits, cap>>
    ELSE LET newSubNotes == pushSubNote(parent.subNotes, newSubNote)
             updated == [parent EXCEPT !.subNotes = newSubNotes]
         IN  /\ countNotes(notes) < cap.notes
             /\ NotesChanged(setNoteByPath(notes, path, updated))
             /\ openNoteTab(Append(path, Len(newSubNotes) - 1))
             /\ last' = Op("handleAddSubNote", path, -1, "OK")
             /\ created' = created \cup
                    {[path |-> Append(path, Len(newSubNotes) - 1),
                      title |-> newSubNote.title, content |-> newSubNote.content]}
             /\ UNCHANGED <<edits, cap>>

handleAddSubNote(path) ==
    LET parent == getNoteByPath(notes, path) IN
    IF parent = Null
    THEN /\ last' = Op("handleAddSubNote", path, -1, "NotFound")
         /\ UNCHANGED <<notes, storage, tabVars, searchVars, created, edits, cap>>
    ELSE IF Len(path) >= MaxDepth
    THEN /\ last' = Op("handleAddSubNote", path, -1, "DepthExceeded")
         /\ UNCHANGED <<notes, storage, tabVars, searchVars, created, edits, cap>>
    ELSE LET newSubNotes == pushSubNote(parent.subNotes, newSubNote)
             updated == [parent EXCEPT !.subNotes = newSubNotes]
         IN  /\ countNotes(notes) < cap.notes
             /\ NotesChanged(setNoteByPath(notes, path, updated))
             /\ last' = Op("handleAddSubNote", path, -1, "OK")
             /\ created' = created \cup
                    {[path |-> Append(path, Len(newSubNotes) - 1),
                      title |-> newSubNote.title, content |-> newSubNote.content]}
             /\ UNCHANGED <<tabVars, edits, cap>>

\* the copy of the note with isCollapsed set: { ...note, isCollapsed: true }
toggledNote_set(note) == [note EXCEPT !.isCollapsed = TRUE]

\* updated = { ...note, isCollapsed: !note.isCollapsed }
toggledNote(note) == [note EXCEPT !.isCollapsed = ~note.isCollapsed]

handleToggleCollapse(path) ==
    LET note == getNoteByPath(notes, path) IN
    IF note = Null
    THEN /\ last' = Op("handleToggleCollapse", path, -1, "NotFound")
         /\ UNCHANGED <<notes, storage, tabVars, searchVars, created, edits, cap>>
    ELSE LET updated == toggledNote(note) IN
         /\ edits < cap.edits
         /\ edits' = edits + 1
         /\ NotesChanged(setNoteByPath(notes, path, updated))
         /\ last' = Op("handleToggleCollapse", path, -1, "OK")
         /\ UNCHANGED <<tabVars, created, cap>>

\* the title input of the editor; the editor edits the note at selectedPath
handleNoteTitleChange(value) ==
    LET current == getNoteByPath(notes, selectedPath) IN
    IF current = Null
    THEN /\ last' = Op("handleNoteTitleChange", selectedPath, -1, "NotFound")
         /\ UNCHANGED <<notes, storage, tabVars, searchVars, created, edits, cap>>
    ELSE LET updated == [current EXCEPT !.title = value] IN
         /\ edits < cap.edits
         /\ edits' = edits + 1
         /\ NotesChanged(setNoteByPath(notes, selectedPath, updated))
         /\ last' = Op("handleNoteTitleChange", selectedPath, -1, "OK")
         /\ UNCHANGED <<tabVars, created, cap>>

\* the content textarea of the editor
handleNoteContentChange(value) ==
    LET current == getNoteByPath(notes, selectedPath) IN
    IF current = Null
    THEN /\ last' = Op("handleNoteContentChange", selectedPath, -1, "NotFound")
         /\ UNCHANGED <<notes, storage, tabVars, searchVars, created, edits, cap>>
    ELSE LET updated == [current EXCEPT !.content = value] IN
         /\ edits < cap.edits
         /\ edits' = edits + 1
         /\ NotesChanged(setNoteByPath(notes, selectedPath, updated))
         /\ last' = Op("handleNoteContentChange", selectedPath, -1, "OK")
         /\ UNCHANGED <<tabVars, created, cap>>

----------------------------------------------------------------------------
(* Search panel *)

openSearchPanel ==
    /\ searchOpen' = TRUE
    /\ searchQuery' = EmptyString
    /\ SearchEffect(~searchOpen \/ searchQuery # EmptyString, TRUE, EmptyString, notes,
                    searchResults, 0)
    /\ last' = Op("openSearchPanel", <<>>, -1, "OK")
    /\ UNCHANGED <<notes, storage, tabVars, created, edits, cap>>

\* the states closeSearchPanel leaves; the search effect that follows returns
\* at "if (!searchOpen)"
closeSearchPanel ==
    /\ searchOpen' = FALSE
    /\ searchQuery' = EmptyString
    /\ searchResults' = <<>>
    /\ searchSelectedIndex' = 0

\* a click on the backdrop of the panel, or Escape in the search input with a
\* result listed
handleCloseSearch ==
    /\ searchOpen
    /\ closeSearchPanel
    /\ last' = Op("closeSearchPanel", <<>>, -1, "OK")
    /\ UNCHANGED <<notes, storage, tabVars, created, edits, cap>>

\* onChange of the search input
handleQueryChange(value) ==
    /\ searchOpen
    /\ searchQuery' = value
    /\ UNCHANGED searchOpen
    /\ SearchEffect(value # searchQuery, searchOpen, value, notes,
                    searchResults, searchSelectedIndex)
    /\ last' = Op("setSearchQuery", <<>>, -1, "OK")
    /\ UNCHANGED <<notes, storage, tabVars, created, edits, cap>>

\* ArrowDown that stops at the last result: "return prev" in place of "return 0"
handleArrowDown_stop ==
    /\ searchOpen
    /\ IF Len(searchResults) = 0
       THEN UNCHANGED searchSelectedIndex
       ELSE LET next == searchSelectedIndex + 1 IN
            searchSelectedIndex' = IF next >= Len(searchResults)
                                   THEN searchSelectedIndex ELSE next
    /\ last' = Op("ArrowDown", <<>>, searchSelectedIndex, "OK")
    /\ UNCHANGED <<notes, storage, tabVars, searchOpen, searchQuery, searchResults, created, edits, cap>>

\* handleSearchKeyDown, ArrowDown
handleArrowDown ==
    /\ searchOpen
    /\ IF Len(searchResults) = 0
       THEN UNCHANGED searchSelectedIndex
       ELSE LET next == searchSelectedIndex + 1 IN
            searchSelectedIndex' = IF next >= Len(searchResults) THEN 0 ELSE next
    /\ last' = Op("ArrowDown", <<>>, searchSelectedIndex, "OK")
    /\ UNCHANGED <<notes, storage, tabVars, searchOpen, searchQuery, searchResults, created, edits, cap>>

\* handleSearchKeyDown, ArrowUp
handleArrowUp ==
    /\ searchOpen
    /\ IF Len(searchResults) = 0
       THEN UNCHANGED searchSelectedIndex
       ELSE LET next == searchSelectedIndex - 1 IN
            searchSelectedIndex' = IF next < 0 THEN Len(searchResults) - 1 ELSE next
    /\ last' = Op("ArrowUp", <<>>, searchSelectedIndex, "OK")
    /\ UNCHANGED <<notes, storage, tabVars, searchOpen, searchQuery, searchResults, created, edits, cap>>

\* goToSearchResult(res) for the i-th result (0-based)
goToSearchResult(i) ==
    LET res == searchResults[i + 1] IN
    /\ openNoteTab(res.path)
    /\ closeSearchPanel
    /\ last' = Op("goToSearchResult", res.path, i, "OK")
    /\ UNCHANGED <<notes, storage, created, edits, cap>>

\* Enter that takes the first result: searchResults[0]
handleEnter_first ==
    /\ searchOpen
    /\ Len(searchResults) > 0
    /\ searchSelectedIndex < Len(searchResults)
    /\ goToSearchResult(0)

\* handleSearchKeyDown, Enter: the result under the cursor
handleEnter ==
    /\ searchOpen
    /\ Len(searchResults) > 0
    /\ searchSelectedIndex < Len(searchResults)
    /\ goToSearchResult(searchSelectedIndex)

\* a click on a listed result
handleResultClick(i) ==
    /\ searchOpen
    /\ goToSearchResult(i)

----------------------------------------------------------------------------
NoteNext ==
    \/ handleNewNote
    \/ \E path \in PathInputs(notes) : handleAddSubNote(path)
    \/ \E path \in PathInputs(notes) : handleToggleCollapse(path)
    \/ \E value \in TitleInputs : handleNoteTitleChange(value)
    \/ \E value \in ContentInputs : handleNoteContentChange(value)

TabNext ==
    \/ \E path \in notePaths(notes) : handleSelectPath(path)
    \/ handleGoHome
    \/ \E index \in 0..(Len(openTabs) - 1) : handleTabClick(index)
    \/ \E index \in 0..(Len(openTabs) - 1) : handleTabClose(index)

SearchNext ==
    \/ openSearchPanel
    \/ handleCloseSearch
    \/ \E value \in QueryInputs : handleQueryChange(value)
    \/ handleArrowDown
    \/ handleArrowUp
    \/ handleEnter
    \/ \E i \in 0..(Len(searchResults) - 1) : handleResultClick(i)

Next == NoteNext \/ TabNext \/ SearchNext

Spec == Init /\ [][Next]_vars

\* the values of title, content and isCollapsed of the notes a session finds
\* in the storage
StoredLabels ==
    {[title |-> UntitledSubNote, content |-> EmptyString, isCollapsed |-> FALSE],
     [title |-> UntitledNote, content |-> <<"m", "U">>, isCollapsed |-> FALSE],
     [title |-> <<"S", "u", "b">>, content |-> <<"m", "U">>, isCollapsed |-> TRUE]}

\* the forests of n notes, none deeper than d, with these values
RECURSIVE ForestsOf(_, _)
ForestsOf(n, d) ==
    IF n = 0 THEN {<<>>}
    ELSE IF d = 0 THEN {}
    ELSE UNION {{<<[title |-> l.title, content |-> l.content,
                    subNotes |-> c, isCollapsed |-> l.isCollapsed]>> \o f :
                    l \in StoredLabels,
                    c \in ForestsOf(k - 1, d - 1),
                    f \in ForestsOf(n - k, d)} : k \in 1..n}

\* what JSON.parse(localStorage.getItem('myapp_notes')) yields when an earlier
\* session has saved its forest
StoredForests == UNION {ForestsOf(n, MaxDepth) : n \in 0..cap.notes}

\* the search panel over a forest loaded from the storage
InitSearch ==
    /\ cap = Caps(SearchMaxNotes, 0, 0, 0)
    /\ notes \in StoredForests
    /\ storage = [notes |-> Item(stringify(notes)), tasks |-> Item(stringify(<<>>))]
    /\ selectedPath = <<>>
    /\ openTabs = <<>>
    /\ activeTabIndex = -1
    /\ searchOpen = FALSE
    /\ searchQuery = <<>>
    /\ searchResults = <<>>
    /\ searchSelectedIndex = 0
    /\ last = Op("init", <<>>, -1, "OK")
    /\ created = {}
    /\ edits = 0

\* the panel is opened and closed, the query typed, the cursor moved
NextSearch ==
    \/ openSearchPanel
    \/ handleCloseSearch
    \/ \E value \in QueryInputs : handleQueryChange(value)
    \/ handleArrowDown
    \/ handleArrowUp

SpecSearch == InitSearch /\ [][NextSearch]_vars

\* handleNewNote and handleAddSubNote alone
InitCreate ==
    /\ Start
    /\ cap = Caps(CreateMaxNotes, CreateMaxTabs, 0, CreateMaxPathLen)

NextCreate ==
    \/ handleNewNote
    \/ \E path \in PathInputs(notes) : handleAddSubNote(path)

SpecCreate == InitCreate /\ [][NextCreate]_vars

\* the handlers of the notes and of the tabs
InitTree ==
    /\ Start
    /\ cap = Caps(TreeMaxNotes, TreeMaxTabs, TreeMaxEdits, TreeMaxPathLen)

NextTree == NoteNext \/ TabNext

SpecTree == InitTree /\ [][NextTree]_vars

\* the handlers of the notes, a click on a note and the x of a tab
InitDepth ==
    /\ Start
    /\ cap = Caps(DepthMaxNotes, DepthMaxTabs, DepthMaxEdits, DepthMaxPathLen)

NextDepth ==
    \/ NoteNext
    \/ \E path \in notePaths(notes) : handleSelectPath(path)
    \/ \E index \in 0..(Len(openTabs) - 1) : handleTabClose(index)

SpecDepth == InitDepth /\ [][NextDepth]_vars

\* the handlers that create notes and the handlers of the tabs
InitTabs ==
    /\ Start
    /\ cap = Caps(TabsMaxNotes, TabsMaxTabs, 0, 0)

NextTabs ==
    \/ handleNewNote
    \/ \E path \in notePaths(notes) : handleAddSubNote(path)
    \/ \E path \in notePaths(notes) : handleSelectPath(path)
    \/ \E index \in 0..(Len(openTabs) - 1) : handleTabClick(index)
    \/ \E index \in 0..(Len(openTabs) - 1) : handleTabClose(index)

SpecTabs == InitTabs /\ [][NextTabs]_vars

\* the indexes handed to the handlers of the tab bar: those of the tabs, the
\* one before and the one after
IndexInputs(tabs) == -1..Len(tabs)

\* the same with handleTabClick and handleTabClose handed any of these; once
\* selectedPath is undefined the render throws at path.length in
\* getNoteByPath and no handler is left
NextIndex ==
    /\ selectedPath # Undefined
    /\ \/ handleNewNote
       \/ \E path \in notePaths(notes) : handleSelectPath(path)
       \/ \E index \in IndexInputs(openTabs) : handleTabClick(index)
       \/ \E index \in IndexInputs(openTabs) : handleTabClose(index)

SpecIndex == InitTabs /\ [][NextIndex]_vars

\* the same with the search panel: opened, a query typed, a result chosen
InitCommit ==
    /\ Start
    /\ cap = Caps(CommitMaxNotes, CommitMaxTabs, 0, 0)

NextCommit ==
    \/ NextTabs
    \/ openSearchPanel
    \/ \E value \in QueryInputs : handleQueryChange(value)
    \/ handleEnter
    \/ \E i \in 0..(Len(searchResults) - 1) : handleResultClick(i)

SpecCommit == InitCommit /\ [][NextCommit]_vars

\* the same with the keys of the search input alone: a query typed, ArrowDown
\* and ArrowUp, Enter
NextEnter ==
    \/ NextTabs
    \/ openSearchPanel
    \/ \E value \in QueryInputs : handleQueryChange(value)
    \/ handleArrowDown
    \/ handleArrowUp
    \/ handleEnter

SpecEnter == InitCommit /\ [][NextEnter]_vars

\* a session that finds a forest in the storage
LoadedSession ==
    /\ notes \in StoredForests
    /\ storage = [notes |-> Item(stringify(notes)), tasks |-> Item(stringify(<<>>))]
    /\ selectedPath = <<>>
    /\ openTabs = <<>>
    /\ activeTabIndex = -1
    /\ searchOpen = FALSE
    /\ searchQuery = <<>>
    /\ searchResults = <<>>
    /\ searchSelectedIndex = 0
    /\ last = Op("init", <<>>, -1, "OK")
    /\ created = {}
    /\ edits = 0

\* handleNewNote and handleAddSubNote over a loaded forest that has room for
\* one more note
InitGrow ==
    /\ cap = Caps(GrowMaxNotes, GrowMaxTabs, 0, GrowMaxPathLen)
    /\ LoadedSession
    /\ countNotes(notes) < cap.notes

SpecGrow == InitGrow /\ [][NextCreate]_vars

\* a click on a note, then the editor's inputs, the collapse arrows and the
\* add buttons, over a loaded forest
InitEdit ==
    /\ cap = Caps(EditMaxNotes, EditMaxTabs, EditMaxEdits, EditMaxPathLen)
    /\ LoadedSession

NextEdit ==
    \/ \E path \in notePaths(notes) : handleSelectPath(path)
    \/ \E path \in PathInputs(notes) : handleAddSubNote(path)
    \/ \E path \in PathInputs(notes) : handleToggleCollapse(path)
    \/ \E value \in TitleInputs : handleNoteTitleChange(value)
    \/ \E value \in ContentInputs : handleNoteContentChange(value)

SpecEdit == InitEdit /\ [][NextEdit]_vars

\* the collapse arrows alone, over a loaded forest
InitToggle ==
    /\ cap = Caps(ToggleMaxNotes, 0, ToggleMaxEdits, ToggleMaxPathLen)
    /\ LoadedSession

NextToggle == \E path \in PathInputs(notes) : handleToggleCollapse(path)

SpecToggle == InitToggle /\ [][NextToggle]_vars

\* what the key 'myapp_notes' can hold when a session starts: nothing, the
\* empty string, a text that does not parse, the forest of an earlier session
NotesItems ==
    {Absent, Item(<<>>), Item(BrokenText)} \cup {Item(stringify(f)) : f \in StoredForests}

\* what the key 'myapp_tasks_obj' can hold: nothing, no task, a text that does
\* not parse
TasksItems == {Absent, Item(stringify(<<>>)), Item(BrokenText)}

\* the first render, before its effects: the useState values over a storage
Boot ==
    /\ storage \in [notes : NotesItems, tasks : TasksItems]
    /\ notes = <<>>
    /\ selectedPath = <<>>
    /\ openTabs = <<>>
    /\ activeTabIndex = -1
    /\ searchOpen = FALSE
    /\ searchQuery = <<>>
    /\ searchResults = <<>>
    /\ searchSelectedIndex = 0
    /\ last = Op("boot", <<>>, -1, "OK")
    /\ created = {}
    /\ edits = 0

\* the effects of the first render, then those of the render its setNotes
\* brings: the load effect reads the tasks, then the notes, inside one try;
\* the save effects write the tasks and the forest of each render
mount ==
    LET savedTasks == storage.tasks
        savedNotes == storage.notes
        tasksThrow == /\ savedTasks.present
                      /\ savedTasks.text # <<>>
                      /\ ~JSONparse(savedTasks.text).ok
        notesRead == ~tasksThrow /\ savedNotes.present /\ savedNotes.text # <<>>
        parsed == JSONparse(savedNotes.text)
        loaded == IF notesRead /\ parsed.ok THEN parsed.val ELSE <<>>
    IN  /\ last.op = "boot"
        /\ notes' = loaded
        /\ storage' = [saveNotes(loaded) EXCEPT !.tasks = Item(stringify(<<>>))]
        /\ last' = Op("mount", <<>>, -1,
                      IF tasksThrow \/ (notesRead /\ ~parsed.ok) THEN "Caught" ELSE "OK")
        /\ UNCHANGED <<tabVars, searchVars, created, edits, cap>>

InitStore ==
    /\ cap = Caps(StoreMaxNotes, StoreMaxTabs, StoreMaxEdits, StoreMaxPathLen)
    /\ Boot

NextStore ==
    \/ mount
    \/ /\ last.op # "boot"
       /\ \/ NoteNext
          \/ \E path \in notePaths(notes) : handleSelectPath(path)

SpecStore == InitStore /\ [][NextStore]_vars

----------------------------------------------------------------------------
(* Properties *)

\* the paths of the notes of a forest, by the children of each note
RECURSIVE pathsOf(_)
pathsOf(level) ==
    UNION {{<<i - 1>>} \cup {<<i - 1>> \o q : q \in pathsOf(level[i].subNotes)} :
           i \in 1..Len(level)}

Resolves(ns, path) == path \in pathsOf(ns)

\* C1: in a session of handleNewNote and handleAddSubNote calls, every path
\* a successful call has yielded resolves to a note with the title and the
\* content it was created with.
C1_RoundTrip ==
    \A c \in created :
        LET n == getNoteByPath(notes, c.path) IN
        /\ n # Null
        /\ n.title = c.title
        /\ n.content = c.content

\* two roots, and a sub note created at depth 4
C1_Witness ==
    /\ \E c \in created : Len(c.path) = 4 /\ c.title = UntitledSubNote
    /\ \E c \in created : c.path = <<1>> /\ c.title = UntitledNote

\* C2: every note of the forest is reached by a path of length 1 to 4.
C2_DepthInvariant ==
    \A p \in pathsOf(notes) : 1 <= Len(p) /\ Len(p) <= 4

\* a note at depth 4 that has been edited, in a forest that could hold one more
C2_Witness ==
    /\ \E p \in pathsOf(notes) :
           /\ Len(p) = 4
           /\ getNoteByPath(notes, p).title \in TitleInputs
    /\ countNotes(notes) < cap.notes

\* C3, as claimed: handleAddSubNote with a path of length 4 always ends with
\* the depth warning.
C3_Original ==
    (last.op = "handleAddSubNote" /\ Len(last.path) = 4) => last.res = "DepthExceeded"

\* C3, amended: handleAddSubNote with a path of length 4 leaves the forest
\* unchanged; it ends with the depth warning when the path resolves and
\* without one, as for any path that does not resolve, when it does not.
C3_DepthExceeded ==
    [][(last'.op = "handleAddSubNote" /\ Len(last'.path) = 4)
         => /\ notes' = notes
            /\ last'.res = IF Resolves(notes, last'.path) THEN "DepthExceeded"
                           ELSE "NotFound"]_vars

\* the depth warning for a note at depth 4
C3_Witness ==
    /\ last.op = "handleAddSubNote"
    /\ Len(last.path) = 4
    /\ last.res = "DepthExceeded"
    /\ countNotes(notes) < cap.notes

\* C4: a path that resolves keeps resolving after every step, to a note that
\* has kept its sub notes and, unless the step is an edit, its title and its
\* content.
C4_PathStability ==
    [][\A p \in pathsOf(notes) :
           LET before == getNoteByPath(notes, p)
               after == getNoteByPath(notes', p) IN
           /\ after # Null
           /\ Len(after.subNotes) >= Len(before.subNotes)
           /\ edits' = edits =>
                  /\ after.title = before.title
                  /\ after.content = before.content
                  /\ after.isCollapsed = before.isCollapsed]_vars

\* a sub note added to a note whose first child has a child of its own
C4_Witness ==
    /\ last.op = "handleAddSubNote"
    /\ last.res = "OK"
    /\ Len(getNoteByPath(notes, last.path).subNotes) = 2
    /\ Len(getNoteByPath(notes, last.path).subNotes[1].subNotes) = 1

\* a string without a character other than white space
IsBlank(s) == \A i \in 1..Len(s) : s[i] = " "

\* the two characters are the same letter, whatever their case
SameLetter(c, d) ==
    \/ c = d
    \/ \E pair \in {<<"U", "u">>, <<"N", "n">>, <<"S", "s">>, <<"M", "m">>} :
           {c, d} = {pair[1], pair[2]}

\* q is read in s at some position, whatever the case of the letters
ContainsIgnoringCase(s, q) ==
    \E k \in 0..(Len(s) - Len(q)) :
        \A j \in 1..Len(q) : SameLetter(s[k + j], q[j])

\* the positions of the entries of all that a query selects
Selected(all, q) ==
    {j \in 1..Len(all) :
        \/ ContainsIgnoringCase(all[j].note.title, q)
        \/ ContainsIgnoringCase(all[j].note.content, q)}

\* C5: for every query, search yields no result when the query is blank, and
\* otherwise the entries of gatherAllNotes whose title or content contains the
\* query whatever the case, all of them and no other, in the order of
\* gatherAllNotes.
C5_SearchComplete ==
    \A q \in QueryInputs :
        LET res == search(notes, q)
            all == gatherAllNotes(notes)
            sel == Selected(all, q)
        IN  IF IsBlank(q) THEN res = <<>>
            ELSE /\ Len(res) = Cardinality(sel)
                 /\ \A i \in 1..Len(res) :
                        \E j \in sel :
                            /\ Cardinality({k \in sel : k < j}) = i - 1
                            /\ res[i] = all[j]

\* the panel lists the one note whose content alone contains the query, a
\* note at depth 3, in a forest where another query selects the other notes
C5_Witness ==
    /\ searchOpen
    /\ searchQuery = <<"M", "u">>
    /\ Len(searchResults) = 1
    /\ Len(searchResults[1].path) = 3
    /\ ~ContainsIgnoringCase(searchResults[1].note.title, searchQuery)
    /\ Len(search(notes, <<"s", "U", "b">>)) = 2

\* p is listed before q in pre-order: p is a proper prefix of q, or p is to
\* the left of q where they part
PreOrderBefore(p, q) ==
    \/ Len(p) < Len(q) /\ SubSeq(q, 1, Len(p)) = p
    \/ \E k \in 1..Len(p) :
           /\ k <= Len(q)
           /\ SubSeq(p, 1, k - 1) = SubSeq(q, 1, k - 1)
           /\ p[k] < q[k]

\* C6: gatherAllNotes lists every note of the forest once, a note before its
\* sub notes and the notes of a level from left to right, each with the path
\* that resolves to it.
C6_GatherAll ==
    LET all == gatherAllNotes(notes) IN
    /\ {all[i].path : i \in 1..Len(all)} = pathsOf(notes)
    /\ Len(all) = Cardinality(pathsOf(notes))
    /\ \A i \in 1..Len(all) : getNoteByPath(notes, all[i].path) = all[i].note
    /\ \A i, j \in 1..Len(all) : i < j => PreOrderBefore(all[i].path, all[j].path)

\* a note with a sub note, followed by a second note, all three listed by the
\* search panel
C6_Witness ==
    /\ pathsOf(notes) = {<<0>>, <<0, 0>>, <<1>>}
    /\ Len(searchResults) = 3

\* the handlers that end in openNoteTab, and the path they hand it
OpenOps == {"handleSelectPath", "goToSearchResult", "handleNewNote"}

OpenedPath(l, ns) == IF l.op = "handleNewNote" THEN <<Len(ns)>> ELSE l.path

\* C7: openNoteTab(path) with a tab of that path open leaves the tabs as they
\* are and makes that tab the active one; without one it appends one tab of
\* that path and makes it, the last, the active one; either way the active tab
\* is then a tab of that path.
C7_OpenOrFocus ==
    [][last'.op \in OpenOps =>
         LET p == OpenedPath(last', notes) IN
         /\ IF \E i \in 1..Len(openTabs) : openTabs[i] = p
            THEN /\ openTabs' = openTabs
                 /\ \E i \in 1..Len(openTabs) : openTabs[i] = p /\ activeTabIndex' = i - 1
            ELSE /\ openTabs' = Append(openTabs, p)
                 /\ activeTabIndex' = Len(openTabs') - 1
         /\ activeTabIndex' \in 0..(Len(openTabs') - 1)
         /\ openTabs'[activeTabIndex' + 1] = p]_vars

\* a click on the note of the first of three tabs
C7_Witness ==
    /\ last.op = "handleSelectPath"
    /\ Len(openTabs) = 3
    /\ activeTabIndex = 0
    /\ openTabs[1] = last.path

\* C8: no two tabs have the same path, and openNoteTab(p) right after
\* openNoteTab(p) leaves the tabs and the active tab as they are.
C8_NoDuplicateTabs ==
    /\ [](\A i, j \in 1..Len(openTabs) : openTabs[i] = openTabs[j] => i = j)
    /\ [][(/\ last.op \in OpenOps
           /\ last'.op \in OpenOps
           /\ OpenedPath(last', notes) = (IF last.op = "handleNewNote"
                                          THEN <<Len(notes) - 1>> ELSE last.path))
          => /\ openTabs' = openTabs
             /\ activeTabIndex' = activeTabIndex]_vars

\* a search result chosen for a note that has a tab, the first of two
C8_Witness ==
    /\ last.op = "goToSearchResult"
    /\ Len(openTabs) = 2
    /\ activeTabIndex = 0
    /\ openTabs[1] = last.path

\* C9: handleTabClose(index) of the active tab removes that tab; with a tab
\* left the active tab is index - 1, or 0 when index is 0; with none left the
\* active tab is -1 and the selection is empty.
C9_CloseActive ==
    [][(last'.op = "handleTabClose" /\ last'.index = activeTabIndex) =>
         LET index == last'.index
             n == Len(openTabs)
         IN  /\ openTabs' = SubSeq(openTabs, 1, index) \o SubSeq(openTabs, index + 2, n)
             /\ IF n > 1
                THEN activeTabIndex' = (IF index > 0 THEN index - 1 ELSE 0)
                ELSE /\ activeTabIndex' = -1
                     /\ selectedPath' = <<>>]_vars

\* of three tabs the second, active, has been closed
C9_Witness ==
    /\ last = Op("handleTabClose", <<>>, 1, "ClosedActive")
    /\ Len(openTabs) = 2
    /\ activeTabIndex = 0

\* C10: handleTabClose(index) of a tab before the active one moves the active
\* index down by one, and the active tab has the path it had.
C10_CloseBeforeActive ==
    [][(last'.op = "handleTabClose" /\ last'.index < activeTabIndex) =>
         /\ activeTabIndex' = activeTabIndex - 1
         /\ activeTabIndex' \in 0..(Len(openTabs') - 1)
         /\ openTabs'[activeTabIndex' + 1] = openTabs[activeTabIndex + 1]]_vars

\* of three tabs the first has been closed while the third was active
C10_Witness ==
    /\ last = Op("handleTabClose", <<>>, 0, "ClosedOther")
    /\ Len(openTabs) = 2
    /\ activeTabIndex = 1

\* C11: whenever a tab is active, the note the editor shows and edits, the one
\* at selectedPath, is the note of the active tab.
C11_EditorShowsActiveTab ==
    activeTabIndex # -1 =>
        /\ activeTabIndex \in 0..(Len(openTabs) - 1)
        /\ selectedPath = openTabs[activeTabIndex + 1]

\* title, content and isCollapsed of the note at a path that resolves
labelAt(ns, p) ==
    LET n == getNoteByPath(ns, p) IN
    [title |-> n.title, content |-> n.content, isCollapsed |-> n.isCollapsed]

\* C12: a handleAddSubNote that succeeds is given a path shorter than 4 that
\* resolves; the forest gains one path, that of the parent followed by the
\* number of sub notes the parent had, where a note without sub notes and not
\* collapsed is; every note the forest had keeps its path, its title, its
\* content and its collapsed flag.
C12_CreateChildFrame ==
    [][(last'.op = "handleAddSubNote" /\ last'.res = "OK") =>
          LET parent == getNoteByPath(notes, last'.path) IN
          /\ parent # Null
          /\ Len(last'.path) < 4
          /\ LET newPath == Append(last'.path, Len(parent.subNotes))
                 child == getNoteByPath(notes', newPath) IN
             /\ newPath \notin pathsOf(notes)
             /\ pathsOf(notes') = pathsOf(notes) \cup {newPath}
             /\ child.subNotes = <<>>
             /\ child.isCollapsed = FALSE
             /\ \A p \in pathsOf(notes) : labelAt(notes', p) = labelAt(notes, p)]_vars

\* a sub note added to a collapsed note at depth 2 that had a sub note with a
\* title of its own
C12_Witness ==
    /\ last.op = "handleAddSubNote"
    /\ last.res = "OK"
    /\ Len(last.path) = 2
    /\ getNoteByPath(notes, last.path).isCollapsed
    /\ Len(getNoteByPath(notes, last.path).subNotes) = 2
    /\ getNoteByPath(notes, last.path).subNotes[1].title = <<"S", "u", "b">>

\* C13: handleNewNote puts one note, without sub notes and not collapsed, at
\* the end of the roots and opens the path <<n>>, n the number of roots before;
\* the roots there were keep their positions and their subtrees.
C13_CreateRootFrame ==
    [][last'.op = "handleNewNote" =>
          /\ Len(notes') = Len(notes) + 1
          /\ \A i \in 1..Len(notes) : notes'[i] = notes[i]
          /\ notes'[Len(notes) + 1].subNotes = <<>>
          /\ notes'[Len(notes) + 1].isCollapsed = FALSE
          /\ selectedPath' = <<Len(notes)>>
          /\ getNoteByPath(notes', selectedPath') = notes'[Len(notes')]]_vars

\* a root added after two roots, the first of which has a sub note
C13_Witness ==
    /\ last.op = "handleNewNote"
    /\ Len(notes) = 3
    /\ Len(notes[1].subNotes) = 1
    /\ selectedPath = <<2>>
    /\ notes[1].title # notes[2].title

\* C14: a title or content change that succeeds is applied at selectedPath;
\* the note there gets the value typed in that field and keeps its other
\* field, its collapsed flag and its sub notes; the forest keeps its paths
\* and every other note its title, content and collapsed flag.
C14_EditFrame ==
    [][(last'.op \in {"handleNoteTitleChange", "handleNoteContentChange"}
          /\ last'.res = "OK") =>
          LET before == labelAt(notes, selectedPath)
              after == labelAt(notes', selectedPath) IN
          /\ last'.path = selectedPath
          /\ selectedPath \in pathsOf(notes)
          /\ pathsOf(notes') = pathsOf(notes)
          /\ \A p \in pathsOf(notes) \ {selectedPath} :
                 labelAt(notes', p) = labelAt(notes, p)
          /\ IF last'.op = "handleNoteTitleChange"
             THEN \E value \in TitleInputs : after = [before EXCEPT !.title = value]
             ELSE \E value \in ContentInputs : after = [before EXCEPT !.content = value]]_vars

\* the content typed into a note at depth 2 that had none and has a sub note
C14_Witness ==
    /\ last.op = "handleNoteContentChange"
    /\ last.res = "OK"
    /\ Len(last.path) = 2
    /\ Len(getNoteByPath(notes, last.path).subNotes) = 1
    /\ getNoteByPath(notes, last.path).title = UntitledSubNote
    /\ getNoteByPath(notes, last.path).content = <<"m", "U">>

\* the forest handleToggleCollapse hands to setNotes for a path that resolves
toggledForest(ns, path) ==
    setNoteByPath(ns, path, toggledNote(getNoteByPath(ns, path)))

\* C15: a handleToggleCollapse that succeeds flips the collapsed flag of the
\* note at the path and leaves its title, its content, the paths of the forest
\* and every other note as they were; and toggling any note twice gives the
\* forest back.
C15_ToggleFrame ==
    /\ [](\A p \in pathsOf(notes) : toggledForest(toggledForest(notes, p), p) = notes)
    /\ [][(last'.op = "handleToggleCollapse" /\ last'.res = "OK") =>
             LET before == labelAt(notes, last'.path)
                 after == labelAt(notes', last'.path) IN
             /\ last'.path \in pathsOf(notes)
             /\ pathsOf(notes') = pathsOf(notes)
             /\ after = [before EXCEPT !.isCollapsed = ~before.isCollapsed]
             /\ \A p \in pathsOf(notes) \ {last'.path} :
                    labelAt(notes', p) = labelAt(notes, p)]_vars

\* a collapsed note at depth 2, with a sub note, toggled twice: open, then
\* collapsed again
C15_Witness ==
    /\ last.op = "handleToggleCollapse"
    /\ last.res = "OK"
    /\ edits = 2
    /\ notes \in StoredForests
    /\ Len(last.path) = 2
    /\ getNoteByPath(notes, last.path).isCollapsed
    /\ Len(getNoteByPath(notes, last.path).subNotes) = 1

\* the handlers that take the path of a note, or edit the note at selectedPath
PathOps == {"handleAddSubNote", "handleToggleCollapse",
            "handleNoteTitleChange", "handleNoteContentChange"}

\* C16: handleAddSubNote with a path shorter than 4, handleToggleCollapse,
\* handleNoteTitleChange and handleNoteContentChange, when the path does not
\* resolve, return at once (NotFound) and leave the forest as it was.
C16_NotFound ==
    [][(/\ last'.op \in PathOps
        /\ last'.path \notin pathsOf(notes)
        /\ last'.op = "handleAddSubNote" => Len(last'.path) < 4) =>
          /\ last'.res = "NotFound"
          /\ notes' = notes]_vars

\* after a sub note was added: a title typed with no note selected
C16_Witness ==
    /\ last.op = "handleNoteTitleChange"
    /\ last.res = "NotFound"
    /\ last.path = <<>>
    /\ created # {}

\* the forest with the collapsed flag of every note set to b
RECURSIVE withFlags(_, _)
withFlags(level, b) ==
    [i \in 1..Len(level) |->
        [level[i] EXCEPT !.isCollapsed = b, !.subNotes = withFlags(level[i].subNotes, b)]]

\* the paths of a result list, in its order
resultPaths(results) == [i \in 1..Len(results) |-> results[i].path]

\* C17: over the forest with every note collapsed, and over the forest with
\* no note collapsed, getNoteByPath finds a note for the same paths as over
\* the forest, with the same title and content, and search lists the same
\* paths in the same order for every query; so any two forests that differ in
\* collapsed flags only agree, both agreeing with the forest of no collapsed
\* note.
C17_CollapsedIndependence ==
    \A b \in BOOLEAN :
        LET other == withFlags(notes, b) IN
        /\ \A p \in PathInputs(notes) :
               LET n == getNoteByPath(notes, p)
                   m == getNoteByPath(other, p) IN
               /\ (n = Null) = (m = Null)
               /\ n # Null => (m.title = n.title /\ m.content = n.content)
        /\ \A q \in QueryInputs :
               resultPaths(search(other, q)) = resultPaths(search(notes, q))

\* the panel lists a note that is under a collapsed note
C17_Witness ==
    /\ searchOpen
    /\ \E i \in 1..Len(searchResults) :
           /\ Len(searchResults[i].path) = 2
           /\ getNoteByPath(notes, SubSeq(searchResults[i].path, 1, 1)).isCollapsed

\* C18: with n > 0 results listed and the cursor at i, ArrowDown leaves the
\* cursor at i + 1, or at 0 from n - 1, and ArrowUp at i - 1, or at n - 1 from
\* 0; the cursor is one of 0..n-1 and the results stay.
C18_CursorWrap ==
    /\ [](Len(searchResults) > 0 =>
             searchSelectedIndex \in 0..(Len(searchResults) - 1))
    /\ [][(last'.op \in {"ArrowDown", "ArrowUp"} /\ Len(searchResults) > 0) =>
             LET n == Len(searchResults)
                 i == searchSelectedIndex IN
             /\ searchResults' = searchResults
             /\ last'.op = "ArrowDown" => searchSelectedIndex' = (i + 1) % n
             /\ last'.op = "ArrowUp" => searchSelectedIndex' = (i + n - 1) % n]_vars

\* ArrowUp from the first of three results
C18_Witness ==
    /\ last.op = "ArrowUp"
    /\ last.index = 0
    /\ Len(searchResults) = 3
    /\ searchSelectedIndex = 2

\* C19: Enter with the cursor at i opens or focuses the tab of the path of
\* results[i], so that the active tab and the editor hold that path, and
\* closes the search: no query, no result, the cursor at 0.
C19_Commit ==
    [][last'.op = "goToSearchResult" =>
          LET path == searchResults[searchSelectedIndex + 1].path IN
          /\ searchSelectedIndex \in 0..(Len(searchResults) - 1)
          /\ last'.index = searchSelectedIndex
          /\ last'.path = path
          /\ activeTabIndex' \in 0..(Len(openTabs') - 1)
          /\ openTabs'[activeTabIndex' + 1] = path
          /\ selectedPath' = path
          /\ searchOpen' = FALSE
          /\ searchQuery' = EmptyString
          /\ searchResults' = <<>>
          /\ searchSelectedIndex' = 0]_vars

\* Enter on the second of two results, a sub note that had no tab
C19_Witness ==
    /\ last.op = "goToSearchResult"
    /\ last.index = 1
    /\ last.path = <<0, 1>>
    /\ openTabs = <<<<0>>, <<0, 1>>>>
    /\ activeTabIndex = 1
    /\ searchQuery = EmptyString

\* C20: handleTabClick and handleTabClose with an index that is none of
\* 0..Len(openTabs)-1 leave the tabs and the active index as they were.  The
\* handlers return nothing, so the report of OutOfRange has nothing to be read
\* from; what is stated is what the claim says of the state.
C20_OutOfRange ==
    [][(/\ last'.op \in {"handleTabClick", "handleTabClose"}
        /\ last'.index \notin 0..(Len(openTabs) - 1)) =>
          /\ openTabs' = openTabs
          /\ activeTabIndex' = activeTabIndex]_vars

\* C21: once the effects of the first render have run, after every handler
\* the text under the key of the notes parses to the forest in memory.
C21_StoredEqualsMemory ==
    last.op # "boot" =>
        /\ storage.notes.present
        /\ JSONparse(storage.notes.text).ok
        /\ JSONparse(storage.notes.text).val = notes

\* a session loaded from the storage in which a sub note was added and a
\* title typed
C21_Witness ==
    /\ last.op = "handleNoteTitleChange"
    /\ Len(notes) = 1
    /\ Len(notes[1].subNotes) = 1
    /\ notes[1].title # newNote.title

\* C22: the start of a session leaves in memory the forest parsed from the key
\* of the notes when that key holds a text that parses, whatever the key of
\* the tasks holds, and the key of the notes then still holds that forest.
C22_LoadsStoredForest ==
    [][last'.op = "mount" =>
          LET savedNotes == storage.notes
              parsed == JSONparse(savedNotes.text)
              valid == savedNotes.present /\ parsed.ok
          IN  /\ notes' = IF valid THEN parsed.val ELSE <<>>
              /\ valid => JSONparse(storage'.notes.text).val = parsed.val]_vars

\* C23: handleAddSubNote, whatever it reports, handleToggleCollapse and the
\* two handlers of the editor leave the tabs and the active index as they were.
C23_TabsUntouched ==
    [][last'.op \in {"handleAddSubNote", "handleToggleCollapse",
                     "handleNoteTitleChange", "handleNoteContentChange"} =>
          /\ openTabs' = openTabs
          /\ activeTabIndex' = activeTabIndex]_vars

\* a sub note refused at the depth limit while a tab is open
C23_Witness ==
    /\ last.op = "handleAddSubNote"
    /\ last.res = "DepthExceeded"
    /\ Len(openTabs) = 1
    /\ activeTabIndex = 0

\* the level a prefix of a path leads to: the forest for the empty prefix, the
\* children of the note at the prefix otherwise
RECURSIVE levelReached(_, _)
levelReached(ns, prefix) ==
    IF prefix = <<>> THEN ns
    ELSE LET n == Len(prefix) IN
         levelReached(ns, SubSeq(prefix, 1, n - 1))[prefix[n] + 1].subNotes

\* every index of the path is one of the level its prefix leads to
RECURSIVE inRange(_, _, _)
inRange(ns, path, i) ==
    IF i > Len(path) THEN TRUE
    ELSE /\ path[i] \in 0..(Len(levelReached(ns, SubSeq(path, 1, i - 1))) - 1)
         /\ inRange(ns, path, i + 1)

\* the paths getNoteByPath is asked for: every sequence of indexes of
\* -1..ResolveMaxIndex up to the length ResolveMaxLen
ResolveInputs ==
    UNION {[1..n -> -1..ResolveMaxIndex] : n \in 0..ResolveMaxLen}

\* C24: getNoteByPath returns a note exactly for the paths that are not empty
\* and whose every index is within the level reached by the indexes before it,
\* and then the note at the last index of the level reached; for every other
\* path it returns null.
C24_Resolve ==
    \A path \in ResolveInputs :
        LET n == Len(path) IN
        IF n > 0 /\ inRange(notes, path, 1)
        THEN getNoteByPath(notes, path) =
                 levelReached(notes, SubSeq(path, 1, n - 1))[path[n] + 1]
        ELSE getNoteByPath(notes, path) = Null

\* a forest three levels deep, a sibling toggled, and a path that asks for a
\* child of a note without children
C24_Witness ==
    /\ last.op = "handleToggleCollapse"
    /\ last.res = "NotFound"
    /\ getNoteByPath(notes, <<0, 0, 0>>) # Null
    /\ getNoteByPath(notes, <<0, 0, 0>>).isCollapsed
    /\ getNoteByPath(notes, <<0, 0, 0, 0>>) = Null
    /\ getNoteByPath(notes, <<0, 1>>) = Null

\* C25: in a session started with no note and no tab, through the handlers of
\* the notes, of the tabs and of the search panel, the path of every tab
\* resolves to a note of the forest.
C25_TabsResolve ==
    \A i \in 1..Len(openTabs) : getNoteByPath(notes, openTabs[i]) # Null

\* two tabs, one of them opened from the search panel on a sub note, after the
\* first tab was closed
C25_Witness ==
    /\ last.op = "goToSearchResult"
    /\ Len(openTabs) = 2
    /\ \E i \in 1..2 : Len(openTabs[i]) = 2
    /\ openTabs[1] # <<0>>
    /\ Len(notes) = 2

\* C26: in a session of handleNewNote, clicks on notes, clicks on tabs, closes
\* of tabs and search commits, the active index is -1 exactly when no tab is
\* open, and is the index of a tab otherwise.
C26_ActiveIndex ==
    /\ activeTabIndex = -1 <=> openTabs = <<>>
    /\ openTabs # <<>> => activeTabIndex \in 0..(Len(openTabs) - 1)

\* the last of two tabs is active after the tab before it was closed
C26_Witness ==
    /\ last = Op("handleTabClose", <<>>, 0, "ClosedOther")
    /\ Len(openTabs) = 1
    /\ activeTabIndex = 0
    /\ Len(notes) = 3

\* C27: handleTabClose(index) removes the tab at index and keeps the others in
\* their order; when index is past the active index the active index is kept
\* and the active tab has the path it had.
C27_CloseFrame ==
    [][last'.op = "handleTabClose" =>
         LET index == last'.index
             n == Len(openTabs)
         IN  /\ Len(openTabs') = n - 1
             /\ \A i \in 1..(n - 1) :
                    openTabs'[i] = openTabs[IF i <= index THEN i ELSE i + 1]
             /\ index > activeTabIndex =>
                    /\ activeTabIndex' = activeTabIndex
                    /\ openTabs'[activeTabIndex' + 1] = openTabs[activeTabIndex + 1]]_vars

\* of three tabs the second has been closed while the first was active
C27_Witness ==
    /\ last = Op("handleTabClose", <<>>, 1, "ClosedOther")
    /\ Len(openTabs) = 2
    /\ activeTabIndex = 0
    /\ selectedPath = openTabs[1]

\* C28: while the search panel is open the results are those of a search of
\* the forest in memory for the query in the input, each result pairing a path
\* with the note that path resolves to; while it is closed the query and the
\* results are empty.
C28_ResultsCurrent ==
    /\ searchOpen =>
           /\ searchResults = search(notes, searchQuery)
           /\ \A i \in 1..Len(searchResults) :
                  getNoteByPath(notes, searchResults[i].path) = searchResults[i].note
    /\ ~searchOpen =>
           /\ searchQuery = EmptyString
           /\ searchResults = <<>>

\* a sub note added while the panel lists the results of a query: the new
\* note is among the results
C28_Witness ==
    /\ searchOpen
    /\ last.op = "handleAddSubNote"
    /\ last.res = "OK"
    /\ Len(searchResults) >= 2
    /\ \E i \in 1..Len(searchResults) :
           /\ Len(searchResults[i].path) = 2
           /\ searchResults[i].note = newSubNote

\* C29: the cursor of the result list is the index of a result, and 0 when no
\* result is listed; a step that changes the query or the forest leaves it at
\* 0; ArrowDown and ArrowUp with no result listed change nothing.
C29_Cursor ==
    /\ [](IF searchResults = <<>>
          THEN searchSelectedIndex = 0
          ELSE searchSelectedIndex \in 0..(Len(searchResults) - 1))
    /\ [][(searchQuery' # searchQuery \/ notes' # notes) =>
              searchSelectedIndex' = 0]_vars
    /\ [][(last'.op \in {"ArrowDown", "ArrowUp"} /\ searchResults = <<>>) =>
              UNCHANGED <<notes, storage, tabVars, searchVars>>]_vars

\* a title typed in the editor while the panel lists two results
C29_Witness ==
    /\ searchOpen
    /\ last.op = "handleNoteTitleChange"
    /\ last.res = "OK"
    /\ Len(searchResults) >= 2
    /\ searchSelectedIndex = 0

\* C30: handleNewNote on a forest of n root notes leaves a tab with the path
\* <<n>>, that tab active, and the new note at that path.
C30_NewNoteTab ==
    [][last'.op = "handleNewNote" =>
         LET n == Len(notes) IN
         /\ activeTabIndex' \in 0..(Len(openTabs') - 1)
         /\ openTabs'[activeTabIndex' + 1] = <<n>>
         /\ getNoteByPath(notes', <<n>>) = newNote]_vars

\* a third root note created after the tabs of the first two were closed
C30_Witness ==
    /\ last.op = "handleNewNote"
    /\ Len(notes) = 3
    /\ openTabs = <<<<2>>>>
    /\ activeTabIndex = 0

====
